---- MODULE Spec2Model ----
(***************************************************************************)
(* whisper_cli.py: one run of main().  The run is a straight line of       *)
(* statements; every call into whisperx is split into a call step and a    *)
(* return-or-raise step, so that a blocking call, a call that raises and   *)
(* the order of the calls are all visible in the state.                    *)
(*                                                                         *)
(* Strings that the script computes with (paths, the token) are sequences  *)
(* of one-character strings.  An optional value (None, an unset            *)
(* environment variable, a dictionary key that is absent, a local that is  *)
(* not bound yet) is a set with at most one element.                       *)
(***************************************************************************)
EXTENDS Integers, Sequences, FiniteSets, TLC

\* ------------------------------------------------------------------ bounds
MaxPathLen == 3
MaxDirLen == 1
PathChars == {"a", ".", "/"}
DirChars == {"o", "/"}
Langs == {"en", "fr"}

SeqsUpTo(S, n) == UNION {[1..k -> S] : k \in 0..n}

\* ------------------------------------------------- constants of the script
ModelDir == <<".", "/", "m", "o", "d", "e", "l", "s">>
DefaultOutputDir == <<".", "/", "o", "u", "t", "p", "u", "t">>
VttSuffix == <<".", "v", "t", "t">>
DefaultLanguage == "en"

\* ------------------------------------------------------------ input spaces
AudioPaths == SeqsUpTo(PathChars, MaxPathLen)
TokenValues == {<< >>, <<"h", "f">>}
\* every short value, the script's own ./models, and one with a trailing slash
EnvDirValues == SeqsUpTo(DirChars, MaxDirLen) \cup {ModelDir, <<"o", "/">>}
Opt(S) == {{}} \cup {{x} : x \in S}
The(o) == CHOOSE x \in o : TRUE
Environments == [HF_TOKEN : Opt(TokenValues), OUTPUT_DIR : Opt(EnvDirValues)]
Kinds == {"absent", "dir", "file"}
Slots == {"model", "out"}

\* --------------------------------------------------- os.path, os (posix)
RECURSIVE RFindFrom(_, _, _)
RFindFrom(p, c, i) ==
    IF i = 0 THEN 0
    ELSE IF p[i] = c THEN i
    ELSE RFindFrom(p, c, i - 1)

\* str.rfind, 1-based: 0 when c does not occur (Python's -1)
RFind(p, c) == RFindFrom(p, c, Len(p))

Basename(p) == SubSeq(p, RFind(p, "/") + 1, Len(p))

RECURSIVE SplitextScan(_, _, _)
SplitextScan(p, filenameIndex, dotIndex) ==
    IF filenameIndex < dotIndex
    THEN IF p[filenameIndex] # "."
         THEN SubSeq(p, 1, dotIndex - 1)
         ELSE SplitextScan(p, filenameIndex + 1, dotIndex)
    ELSE p

\* os.path.splitext(p)[0], splitting at the first dot instead of the last
SplitextRootFirstDot(p) ==
    IF \E i \in 2..Len(p) : p[i] = "."
    THEN SubSeq(p, 1, (CHOOSE i \in 2..Len(p) :
                          p[i] = "." /\ \A j \in 2..(i - 1) : p[j] # ".") - 1)
    ELSE p

\* os.path.splitext(p)[0]
SplitextRoot(p) ==
    LET sepIndex == RFind(p, "/")
        dotIndex == RFind(p, ".")
    IN IF dotIndex > sepIndex
       THEN SplitextScan(p, sepIndex + 1, dotIndex)
       ELSE p

\* os.path.join(a, b)
Join(a, b) ==
    IF Len(b) > 0 /\ b[1] = "/" THEN b
    ELSE IF Len(a) = 0 \/ a[Len(a)] = "/" THEN a \o b
    ELSE a \o <<"/">> \o b

\* os.getenv(key) / os.getenv(key, default): an optional value
Getenv(env, key) == env[key]
GetenvDefault(env, key, default) == IF env[key] = {} THEN {default} ELSE env[key]

\* a path that can name a regular file at all
CanBeFile(p) ==
    /\ Len(p) > 0
    /\ p[Len(p)] # "/"
    /\ Basename(p) \notin {<<".">>, <<".", ".">>}

OnlySlashes(p) == Len(p) > 0 /\ \A i \in 1..Len(p) : p[i] = "/"

\* the directory entry a path of this run refers to
Slot(p) == IF p = ModelDir THEN "model" ELSE "out"

\* ------------------------------------------------------------------ state
VARIABLES
    pc,            \* the statement main() is at
    in_call,       \* TRUE while main() is blocked inside a whisperx call
    argv,          \* the positional argument of the command line, if any
    audio_exists,  \* whether that path names a regular file
    environ,       \* os.environ, the keys HF_TOKEN and OUTPUT_DIR
    fs,            \* kind of the two directories main() may create
    fs0,           \* fs as it was when the run started
    audio_file,    \* locals of main()
    hf_token,
    output_dir,
    result,
    vtt_path,
    log,           \* the whisperx calls so far: <<"call"|"ret"|"raise", stage, language>>
    out,           \* what print() has written: <<message, path>>
    written,       \* the <<output_dir, audio_file>> the subtitle writer has written for
    outcome,       \* "running", "returned", "raised" or "exit"
    exit_status,   \* the process exit status once the run has ended
    raised_at      \* the statement an exception came from

world == <<argv, audio_exists, fs0>>
locals == <<audio_file, hf_token, output_dir, result, vtt_path>>
status == <<outcome, exit_status, raised_at>>
vars == <<pc, in_call, environ, fs, log, out, written, world, locals, status>>

Results == [language : Opt(Langs), segments : BOOLEAN]
\* what align and assign_word_speakers hand back: the script reads no key
\* of it except "language"
LaterResults == {r \in Results : r.segments}

NoPath == << >>
Msg(tag, path) == <<tag, path>>

Init ==
    /\ pc = "load_dotenv"
    /\ in_call = FALSE
    /\ argv \in Opt(AudioPaths)
    /\ audio_exists \in BOOLEAN
    /\ audio_exists => (argv # {} /\ CanBeFile(The(argv)))
    /\ environ \in Environments
    /\ fs \in [Slots -> Kinds]
    /\ fs0 = fs
    /\ audio_file = {}
    /\ hf_token = {}
    /\ output_dir = {}
    /\ result = {}
    /\ vtt_path = {}
    /\ log = << >>
    /\ out = << >>
    /\ written = {}
    /\ outcome = "running"
    /\ exit_status = {}
    /\ raised_at = ""

\* ------------------------------------------------------- ways a run ends
\* main() returns; the interpreter exits with status 0
Return ==
    /\ pc' = "done"
    /\ outcome' = "returned"
    /\ exit_status' = {0}
    /\ UNCHANGED raised_at

\* an exception leaves main() uncaught; the interpreter exits with status 1
Raise(at) ==
    /\ pc' = "done"
    /\ outcome' = "raised"
    /\ exit_status' = {1}
    /\ raised_at' = at

\* ------------------------------------------------------------ the preamble
\* load_dotenv(): a key of the .env file is set unless the environment has it
\* (override=False); a key the file does not define stays as it is
AfterDotenv(current, inFile) == IF current # {} THEN {current} ELSE inFile

LoadDotenv ==
    /\ pc = "load_dotenv"
    /\ \E tok \in AfterDotenv(environ.HF_TOKEN, Opt(TokenValues)),
          dir \in AfterDotenv(environ.OUTPUT_DIR, Opt(EnvDirValues)) :
          environ' = [HF_TOKEN |-> tok, OUTPUT_DIR |-> dir]
    /\ pc' = "parse_args"
    /\ UNCHANGED <<in_call, fs, log, out, written, world, locals, status>>

\* parser.parse_args(): without the positional argument argparse exits, status 2
ParseArgs ==
    /\ pc = "parse_args"
    /\ IF argv = {}
       THEN /\ pc' = "done"
            /\ outcome' = "exit"
            /\ exit_status' = {2}
            /\ raised_at' = "parse_args"
            /\ UNCHANGED audio_file
       ELSE /\ audio_file' = argv
            /\ pc' = "read_env"
            /\ UNCHANGED status
    /\ UNCHANGED <<in_call, environ, fs, log, out, written, world,
                   hf_token, output_dir, result, vtt_path>>

\* the two os.getenv calls, with the output directory created at once
ReadEnvAndPrepare ==
    /\ pc = "read_env"
    /\ hf_token' = Getenv(environ, "HF_TOKEN")
    /\ output_dir' = GetenvDefault(environ, "OUTPUT_DIR", DefaultOutputDir)
    /\ LET d == The(GetenvDefault(environ, "OUTPUT_DIR", DefaultOutputDir))
       IN fs' = [fs EXCEPT ![Slot(d)] = IF @ = "absent" THEN "dir" ELSE @]
    /\ pc' = "check_token"
    /\ UNCHANGED <<in_call, environ, log, out, written, world,
                   audio_file, result, vtt_path, status>>

ReadEnv ==
    /\ pc = "read_env"
    /\ hf_token' = Getenv(environ, "HF_TOKEN")
    /\ output_dir' = GetenvDefault(environ, "OUTPUT_DIR", DefaultOutputDir)
    /\ pc' = "check_token"
    /\ UNCHANGED <<in_call, environ, fs, log, out, written, world,
                   audio_file, result, vtt_path, status>>

\* a check that only rejects the empty string
TokenMissingOnlyEmpty(tok) == tok = {<< >>}

\* not hf_token: None and the empty string are both falsy
TokenMissing(tok) == tok = {} \/ tok = {<< >>}

\* print the message and sys.exit(1)
EarlyExit(msg) ==
    /\ out' = Append(out, msg)
    /\ pc' = "done"
    /\ outcome' = "exit"
    /\ exit_status' = {1}
    /\ UNCHANGED raised_at

\* print(...); return
EarlyReturn(msg) ==
    /\ out' = Append(out, msg)
    /\ Return

CheckToken ==
    /\ pc = "check_token"
    /\ IF TokenMissing(hf_token)
       THEN EarlyReturn(Msg("Error: HF_TOKEN not set", NoPath))
       ELSE /\ pc' = "check_file"
            /\ UNCHANGED <<out, status>>
    /\ UNCHANGED <<in_call, environ, fs, log, written, world, locals>>

\* a check that takes every path for a file
IsFileAlways(p) == TRUE

\* os.path.isfile(p)
IsFile(p) == p \in argv /\ audio_exists

CheckAudioFile ==
    /\ pc = "check_file"
    /\ IF ~IsFile(The(audio_file))
       THEN EarlyReturn(Msg("Error: Audio file not found", The(audio_file)))
       ELSE /\ pc' = "makedirs_model"
            /\ UNCHANGED <<out, status>>
    /\ UNCHANGED <<in_call, environ, fs, log, written, world, locals>>

\* ------------------------------------------------------------- directories
KindOf(p) == IF OnlySlashes(p) THEN "dir" ELSE fs[Slot(p)]

\* os.makedirs(path, exist_ok=exist_ok), then go to next
Makedirs(path, exist_ok, next) ==
    \/ /\ Len(path) > 0
       /\ KindOf(path) = "dir"
       /\ exist_ok
       /\ fs' = fs
       /\ pc' = next
       /\ UNCHANGED status
    \/ /\ Len(path) > 0
       /\ KindOf(path) = "absent"
       /\ fs' = [fs EXCEPT ![Slot(path)] = "dir"]
       /\ pc' = next
       /\ UNCHANGED status
    \/ \* FileNotFoundError (""), FileExistsError, or the creation is refused
       /\ \/ Len(path) = 0
          \/ KindOf(path) = "file"
          \/ KindOf(path) = "dir" /\ ~exist_ok
          \/ KindOf(path) = "absent"
       /\ fs' = fs
       /\ Raise(pc)

MakeModelDirNoExistOk ==
    /\ pc = "makedirs_model"
    /\ Makedirs(ModelDir, FALSE, "makedirs_output")
    /\ UNCHANGED <<in_call, environ, log, out, written, world, locals>>

MakeModelDir ==
    /\ pc = "makedirs_model"
    /\ Makedirs(ModelDir, TRUE, "makedirs_output")
    /\ UNCHANGED <<in_call, environ, log, out, written, world, locals>>

MakeOutputDir ==
    /\ pc = "makedirs_output"
    /\ Makedirs(The(output_dir), TRUE, "load_model")
    /\ UNCHANGED <<in_call, environ, log, out, written, world, locals>>

\* ------------------------------------------------------ the whisperx calls
\* the statements after the directories are prepared, diarization moved
\* ahead of alignment
StagesDiarizeFirst ==
    <<"load_model", "load_audio", "transcribe", "DiarizationPipeline",
      "diarize", "load_align_model", "align", "assign_word_speakers",
      "ensure_language", "get_writer", "writer", "print_saved">>

\* the statements after the directories are prepared, in program order
Stages ==
    <<"load_model", "load_audio", "transcribe", "load_align_model", "align",
      "DiarizationPipeline", "diarize", "assign_word_speakers",
      "ensure_language", "get_writer", "writer", "print_saved">>

After(stage) ==
    LET i == CHOOSE k \in 1..(Len(Stages) - 1) : Stages[k] = stage
    IN Stages[i + 1]

\* print the progress messages, then enter the call
Enter(stage, msgs, data) ==
    /\ pc = stage
    /\ ~in_call
    /\ in_call' = TRUE
    /\ out' = out \o msgs
    /\ log' = Append(log, <<"call", stage, data>>)
    /\ UNCHANGED <<pc, status>>

\* the call returns
Leave(stage, data) ==
    /\ pc = stage
    /\ in_call
    /\ in_call' = FALSE
    /\ log' = Append(log, <<"ret", stage, data>>)
    /\ pc' = After(stage)
    /\ UNCHANGED status

\* the call raises, the exception is caught and the run goes on
FailSwallowed(stage) ==
    /\ pc = stage
    /\ in_call
    /\ in_call' = FALSE
    /\ log' = Append(log, <<"raise", stage, {}>>)
    /\ pc' = After(stage)
    /\ UNCHANGED status

\* the call raises and is tried again, twice at most
FailRetried(stage) ==
    /\ pc = stage
    /\ in_call
    /\ in_call' = FALSE
    /\ log' = Append(log, <<"raise", stage, {}>>)
    /\ IF Len(SelectSeq(log, LAMBDA e : e[1] = "raise")) < 2
       THEN UNCHANGED <<pc, status>>
       ELSE Raise(stage)

\* the call raises: nothing in main() catches it
Fail(stage) ==
    /\ pc = stage
    /\ in_call
    /\ in_call' = FALSE
    /\ log' = Append(log, <<"raise", stage, {}>>)
    /\ Raise(stage)

\* evaluating an argument raises KeyError before the call is made
ArgError(stage) ==
    /\ pc = stage
    /\ ~in_call
    /\ Raise(stage)
    /\ UNCHANGED <<in_call, log, out>>

CallLoadModel ==
    /\ Enter("load_model", <<Msg("Loading WhisperX model", NoPath)>>, {})
    /\ UNCHANGED <<environ, fs, written, world, locals>>

RetLoadModel ==
    /\ \/ Leave("load_model", {})
       \/ Fail("load_model")
    /\ UNCHANGED <<environ, fs, out, written, world, locals>>

CallLoadAudio ==
    /\ Enter("load_audio", <<Msg("Loading audio", The(audio_file))>>, {})
    /\ UNCHANGED <<environ, fs, written, world, locals>>

RetLoadAudio ==
    /\ \/ Leave("load_audio", {})
       \/ Fail("load_audio")
    /\ UNCHANGED <<environ, fs, out, written, world, locals>>

CallTranscribe ==
    /\ Enter("transcribe", <<Msg("Running transcription", NoPath)>>, {})
    /\ UNCHANGED <<environ, fs, written, world, locals>>

\* result = model.transcribe(...): whatever dictionary the model hands back
RetTranscribe ==
    /\ \/ \E r \in Results :
             /\ Leave("transcribe", r.language)
             /\ result' = {r}
       \/ /\ Fail("transcribe")
          /\ UNCHANGED result
    /\ UNCHANGED <<environ, fs, out, written, world,
                   audio_file, hf_token, output_dir, vtt_path>>

\* load_align_model(language_code=result["language"], ...)
CallLoadAlignModel ==
    /\ IF result = {} \/ The(result).language = {}
       THEN ArgError("load_align_model")
       ELSE Enter("load_align_model",
                  <<Msg("Loading alignment model", NoPath)>>,
                  The(result).language)
    /\ UNCHANGED <<environ, fs, written, world, locals>>

RetLoadAlignModel ==
    /\ \/ Leave("load_align_model", {})
       \/ Fail("load_align_model")
    /\ UNCHANGED <<environ, fs, out, written, world, locals>>

\* result = whisperx.align(result["segments"], ...)
CallAlign ==
    /\ IF result = {} \/ ~The(result).segments
       THEN ArgError("align")
       ELSE Enter("align", <<Msg("Aligning transcription segments", NoPath)>>, {})
    /\ UNCHANGED <<environ, fs, written, world, locals>>

RetAlign ==
    /\ \/ \E r \in LaterResults :
             /\ Leave("align", {})
             /\ result' = {r}
       \/ /\ Fail("align")
          /\ UNCHANGED result
    /\ UNCHANGED <<environ, fs, out, written, world,
                   audio_file, hf_token, output_dir, vtt_path>>

CallDiarizationPipeline ==
    /\ Enter("DiarizationPipeline",
             <<Msg("Initializing diarization pipeline", NoPath)>>, {})
    /\ UNCHANGED <<environ, fs, written, world, locals>>

RetDiarizationPipeline ==
    /\ \/ Leave("DiarizationPipeline", {})
       \/ Fail("DiarizationPipeline")
    /\ UNCHANGED <<environ, fs, out, written, world, locals>>

CallDiarize ==
    /\ Enter("diarize", <<Msg("Running speaker diarization", NoPath)>>, {})
    /\ UNCHANGED <<environ, fs, written, world, locals>>

RetDiarize ==
    /\ \/ Leave("diarize", {})
       \/ Fail("diarize")
    /\ UNCHANGED <<environ, fs, out, written, world, locals>>

\* result = whisperx.assign_word_speakers(diarize_segments, result)
CallAssignWordSpeakers ==
    /\ Enter("assign_word_speakers",
             <<Msg("Assigning speaker labels", NoPath)>>, {})
    /\ UNCHANGED <<environ, fs, written, world, locals>>

RetAssignWordSpeakers ==
    /\ \/ \E r \in LaterResults :
             /\ Leave("assign_word_speakers", r.language)
             /\ result' = {r}
       \/ /\ Fail("assign_word_speakers")
          /\ UNCHANGED result
    /\ UNCHANGED <<environ, fs, out, written, world,
                   audio_file, hf_token, output_dir, vtt_path>>

\* --------------------------------------------------------------- the output
\* result["language"] = "en", whatever the result carries
EnsureLanguageOverwrite ==
    /\ pc = "ensure_language"
    /\ result' = {[The(result) EXCEPT !.language = {DefaultLanguage}]}
    /\ pc' = After("ensure_language")
    /\ UNCHANGED <<in_call, environ, fs, log, out, written, world,
                   audio_file, hf_token, output_dir, vtt_path, status>>

\* result["language"] = result.get("language", "en")
EnsureLanguage ==
    /\ pc = "ensure_language"
    /\ result' = {[The(result) EXCEPT
                      !.language = IF @ = {} THEN {DefaultLanguage} ELSE @]}
    /\ pc' = After("ensure_language")
    /\ UNCHANGED <<in_call, environ, fs, log, out, written, world,
                   audio_file, hf_token, output_dir, vtt_path, status>>

\* writer = get_writer("vtt", output_dir)
CallGetWriter ==
    /\ Enter("get_writer", <<Msg("Writing VTT file", NoPath)>>, {})
    /\ UNCHANGED <<environ, fs, written, world, locals>>

RetGetWriter ==
    /\ \/ Leave("get_writer", {})
       \/ Fail("get_writer")
    /\ UNCHANGED <<environ, fs, out, written, world, locals>>

\* writer(result, audio_file, options)
CallWriter ==
    /\ Enter("writer", << >>, The(result).language)
    /\ UNCHANGED <<environ, fs, written, world, locals>>

RetWriter ==
    /\ \/ /\ Leave("writer", {})
          /\ written' = written \cup {<<The(output_dir), The(audio_file)>>}
       \/ /\ Fail("writer")
          /\ UNCHANGED written
    /\ UNCHANGED <<environ, fs, out, world, locals>>

\* base_name, vtt_path, the last print, and main() returns
PrintSaved ==
    /\ pc = "print_saved"
    /\ LET base_name == SplitextRoot(Basename(The(audio_file)))
           path == Join(The(output_dir), base_name \o VttSuffix)
       IN /\ vtt_path' = {path}
          /\ out' = Append(out, Msg("Saved .vtt subtitles", path))
    /\ Return
    /\ UNCHANGED <<in_call, environ, fs, log, written, world,
                   audio_file, hf_token, output_dir, result>>

Next ==
    \/ LoadDotenv
    \/ ParseArgs
    \/ ReadEnv
    \/ CheckToken
    \/ CheckAudioFile
    \/ MakeModelDir
    \/ MakeOutputDir
    \/ CallLoadModel
    \/ RetLoadModel
    \/ CallLoadAudio
    \/ RetLoadAudio
    \/ CallTranscribe
    \/ RetTranscribe
    \/ CallLoadAlignModel
    \/ RetLoadAlignModel
    \/ CallAlign
    \/ RetAlign
    \/ CallDiarizationPipeline
    \/ RetDiarizationPipeline
    \/ CallDiarize
    \/ RetDiarize
    \/ CallAssignWordSpeakers
    \/ RetAssignWordSpeakers
    \/ EnsureLanguage
    \/ CallGetWriter
    \/ RetGetWriter
    \/ CallWriter
    \/ RetWriter
    \/ PrintSaved

Spec == Init /\ [][Next]_vars

\* ------------------------------------------------------------------ claims
Called(stage) == \E i \in DOMAIN log : log[i][1] = "call" /\ log[i][2] = stage
TimesCalled(stage) ==
    Cardinality({i \in DOMAIN log : log[i][1] = "call" /\ log[i][2] = stage})
Printed(tag) == \E i \in DOMAIN out : out[i][1] = tag
IsPrefix(s, t) == Len(s) =< Len(t) /\ \A i \in DOMAIN s : s[i] = t[i]
ModelLoaders == {"load_model", "load_align_model", "DiarizationPipeline"}
BeforeTokenCheck == {"load_dotenv", "parse_args", "read_env", "check_token"}
BeforeFileCheck == BeforeTokenCheck \cup {"check_file"}
ExternalStages ==
    {"load_model", "load_audio", "transcribe", "load_align_model", "align",
     "DiarizationPipeline", "diarize", "assign_word_speakers", "get_writer",
     "writer"}

\* C1: with HF_TOKEN unset in the environment main() reads (after
\* load_dotenv), and whatever the audio path is, the run never gets past the
\* token check, calls none of load_model, load_align_model and
\* DiarizationPipeline, and has printed the token error when it has ended.
C1_NoTokenNoLoading ==
    (pc # "load_dotenv" /\ argv # {} /\ environ.HF_TOKEN = {}) =>
        /\ pc \in BeforeTokenCheck \cup {"done"}
        /\ \A s \in ModelLoaders : ~Called(s)
        /\ pc = "done" => Printed("Error: HF_TOKEN not set")

C1_Witness ==
    /\ pc = "done"
    /\ environ.HF_TOKEN = {}
    /\ argv # {}
    /\ audio_exists
    /\ Printed("Error: HF_TOKEN not set")

\* C2: when the audio path names no existing file the run never gets past
\* the file check, calls none of load_model, load_align_model and
\* DiarizationPipeline, and has printed an error when it has ended: the
\* file error naming the path, or the token error if the token is missing too.
C2_NoFileNoLoading ==
    (argv # {} /\ ~audio_exists) =>
        /\ pc \in BeforeFileCheck \cup {"done"}
        /\ \A s \in ModelLoaders : ~Called(s)
        /\ pc = "done" =>
              IF TokenMissing(environ.HF_TOKEN)
              THEN Printed("Error: HF_TOKEN not set")
              ELSE \E i \in DOMAIN out :
                      out[i] = <<"Error: Audio file not found", The(argv)>>

C2_Witness ==
    /\ pc = "done"
    /\ argv # {}
    /\ ~audio_exists
    /\ environ.HF_TOKEN = {<<"h", "f">>}
    /\ Printed("Error: Audio file not found")

\* C3: the calls among load model, load audio, transcribe, align, diarize,
\* assign speakers and write happen in exactly that order in every run (the
\* calls made so far are always a prefix of it), and a call is only ever
\* made when the call before it has returned.
NamedOrder ==
    <<"load_model", "load_audio", "transcribe", "align", "diarize",
      "assign_word_speakers", "writer">>

C3_FixedCallOrder ==
    LET named == SelectSeq(log, LAMBDA e :
                     e[1] = "call" /\ \E k \in DOMAIN NamedOrder : NamedOrder[k] = e[2])
    IN /\ IsPrefix([i \in DOMAIN named |-> named[i][2]], NamedOrder)
       /\ \A i \in DOMAIN log :
             (log[i][1] = "call" /\ i > 1) => log[i - 1][1] = "ret"
       /\ in_call <=> (log # << >> /\ log[Len(log)][1] = "call")

C3_Witness ==
    /\ pc = "done"
    /\ outcome = "returned"
    /\ Called("writer")
    /\ Called("load_model")

\* C4: a run given an audio path that has ended with the token missing
\* (unset or empty) or the audio file not existing has printed one of the
\* two error messages and returned from main(): no exception, exit status 0,
\* as after a run that wrote the subtitles.
C4_EarlyReturnIsNormal ==
    (pc = "done" /\ argv # {} /\ (TokenMissing(environ.HF_TOKEN) \/ ~audio_exists)) =>
        /\ outcome = "returned"
        /\ exit_status = {0}
        /\ raised_at = ""
        /\ Printed("Error: HF_TOKEN not set") \/ Printed("Error: Audio file not found")
        /\ ~Printed("Saved .vtt subtitles")

C4_Witness ==
    /\ pc = "done"
    /\ argv # {}
    /\ environ.HF_TOKEN = {<< >>}
    /\ ~audio_exists
    /\ exit_status = {0}

\* what <OUTPUT_DIR>/<input-base-name>.vtt means, stated on path components
RECURSIVE PathParts(_)
PathParts(p) ==
    IF p = << >> THEN << >>
    ELSE IF p[1] = "/" THEN PathParts(Tail(p))
    ELSE LET n == IF \E i \in DOMAIN p : p[i] = "/"
                  THEN (CHOOSE i \in DOMAIN p :
                           p[i] = "/" /\ \A j \in 1..(i - 1) : p[j] # "/") - 1
                  ELSE Len(p)
         IN <<SubSeq(p, 1, n)>> \o PathParts(SubSeq(p, n + 1, Len(p)))

IsAbsolute(p) == p # << >> /\ p[1] = "/"
FileName(p) == LET parts == PathParts(p) IN parts[Len(parts)]

\* the dot that starts the last extension of a file name: the last dot,
\* unless nothing but dots precedes it
ExtensionDots(name) ==
    {i \in DOMAIN name :
        /\ name[i] = "."
        /\ \A j \in (i + 1)..Len(name) : name[j] # "."
        /\ \E j \in 1..(i - 1) : name[j] # "."}

InputBaseName(p) ==
    LET name == FileName(p)
    IN IF ExtensionDots(name) = {} THEN name
       ELSE SubSeq(name, 1, (CHOOSE i \in ExtensionDots(name) : TRUE) - 1)

ConfiguredOutputDir ==
    IF environ.OUTPUT_DIR = {}
    THEN <<".", "/", "o", "u", "t", "p", "u", "t">>
    ELSE The(environ.OUTPUT_DIR)

\* C5: every path reported as saved is the entry <base>.vtt of the directory
\* OUTPUT_DIR (./output when the variable is not set), <base> being the audio
\* file's name without its directory and without its last extension; so it
\* is a function of OUTPUT_DIR and the audio path alone.
C5_OutputPath ==
    \A i \in DOMAIN out :
        out[i][1] = "Saved .vtt subtitles" =>
            /\ PathParts(out[i][2]) =
                  PathParts(ConfiguredOutputDir)
                     \o <<InputBaseName(The(argv)) \o <<".", "v", "t", "t">>>>
            /\ IsAbsolute(out[i][2]) <=> IsAbsolute(ConfiguredOutputDir)
            /\ vtt_path = {out[i][2]}

C5_Witness ==
    /\ Printed("Saved .vtt subtitles")
    /\ environ.OUTPUT_DIR = {}
    /\ argv = {<<"/", "a", ".">>}
    /\ vtt_path = {<<".", "/", "o", "u", "t", "p", "u", "t", "/", "a", ".", "v", "t", "t">>}

\* C6: when load_model is called both ./models and the output directory
\* exist, and a makedirs call never fails on a directory that was already
\* there when the run started.
C6_DirectoriesReady ==
    /\ Called("load_model") =>
          /\ KindOf(ModelDir) = "dir"
          /\ KindOf(The(output_dir)) = "dir"
    /\ raised_at = "makedirs_model" => fs0[Slot(ModelDir)] # "dir"
    /\ raised_at = "makedirs_output" =>
          \/ The(output_dir) = << >>
          \/ /\ fs0[Slot(The(output_dir))] # "dir"
             /\ ~OnlySlashes(The(output_dir))

C6_Witness ==
    /\ Called("load_model")
    /\ fs0["model"] = "dir"
    /\ fs0["out"] = "absent"
    /\ fs["out"] = "dir"
    /\ output_dir = {<<"o">>}

\* C7: once a whisperx call has raised, the run is over with the exception
\* uncaught: the raise is the last event of the run, the stage was called
\* once, and the 'Saved .vtt subtitles' message is not printed.
C7_FailurePropagates ==
    \A i \in DOMAIN log :
        log[i][1] = "raise" =>
            /\ i = Len(log)
            /\ pc = "done"
            /\ outcome = "raised"
            /\ raised_at = log[i][2]
            /\ exit_status = {1}
            /\ TimesCalled(log[i][2]) = 1
            /\ ~Printed("Saved .vtt subtitles")
            /\ written = {}

C7_Witness ==
    /\ outcome = "raised"
    /\ raised_at = "align"
    /\ Called("transcribe")
    /\ ~Called("DiarizationPipeline")

\* C8: no whisperx call is made twice in a run; a run that prints the saved
\* message has made each call exactly once, the write last, and has ended;
\* and once the writer has returned nothing is left but that message.
C8_EachCallOnce ==
    /\ \A s \in ExternalStages : TimesCalled(s) =< 1
    /\ Printed("Saved .vtt subtitles") =>
          /\ \A s \in ExternalStages : TimesCalled(s) = 1
          /\ log[Len(log)][1] = "ret" /\ log[Len(log)][2] = "writer"
          /\ pc = "done" /\ outcome = "returned"
    /\ (log # << >> /\ log[Len(log)][1] = "ret" /\ log[Len(log)][2] = "writer") =>
          pc \in {"print_saved", "done"}

C8_Witness ==
    /\ pc = "done"
    /\ Printed("Saved .vtt subtitles")
    /\ \A s \in ExternalStages : TimesCalled(s) = 1

\* C9: a run that has returned after one of the two error messages has
\* left both directories as they were and has written no subtitle file.
C9_EarlyReturnFrame ==
    (Printed("Error: HF_TOKEN not set") \/ Printed("Error: Audio file not found")) =>
        /\ fs = fs0
        /\ written = {}
        /\ log = << >>

C9_Witness ==
    /\ pc = "done"
    /\ Printed("Error: Audio file not found")
    /\ fs0 = [s \in Slots |-> "absent"]
    /\ fs = fs0

\* C10: the result handed to the writer has a language: the one in the
\* result assign_word_speakers returned if it has one, "en" otherwise; the
\* language transcribe returned is the language_code of load_align_model.
LoggedLanguage(kind, stage) ==
    LET i == CHOOSE k \in DOMAIN log : log[k][1] = kind /\ log[k][2] = stage
    IN log[i][3]

C10_WrittenLanguage ==
    /\ Called("writer") =>
          /\ LoggedLanguage("call", "writer") # {}
          /\ LoggedLanguage("call", "writer") =
                IF LoggedLanguage("ret", "assign_word_speakers") # {}
                THEN LoggedLanguage("ret", "assign_word_speakers")
                ELSE {"en"}
    /\ Called("load_align_model") =>
          /\ LoggedLanguage("call", "load_align_model") # {}
          /\ LoggedLanguage("call", "load_align_model") =
                LoggedLanguage("ret", "transcribe")

C10_Witness ==
    /\ Called("writer")
    /\ LoggedLanguage("ret", "transcribe") = {"fr"}
    /\ LoggedLanguage("ret", "assign_word_speakers") = {}
    /\ LoggedLanguage("call", "writer") = {"en"}

====
